---- MODULE Spec2Model ----
(***************************************************************************)
(* Model of src/src/laravelResourceRoute.ts: the resolver returned by      *)
(* createLaravelResourceResolver and its helpers.                          *)
(*                                                                         *)
(* A JavaScript string is a sequence of one-character strings.  A params   *)
(* object is the sequence of its own enumerable entries, in property       *)
(* order, with pairwise distinct keys; properties inherited from           *)
(* Object.prototype are outside the model.                                 *)
(***************************************************************************)
EXTENDS Integers, Sequences, FiniteSets, TLC

VARIABLES cfg, name, params, usedKeys, result, pc, first, calls

vars == <<cfg, name, params, usedKeys, result, pc, first, calls>>

-----------------------------------------------------------------------------
(* String literals of the source and of the inputs *)

STR_index == <<"i", "n", "d", "e", "x">>
STR_create == <<"c", "r", "e", "a", "t", "e">>
STR_store == <<"s", "t", "o", "r", "e">>
STR_show == <<"s", "h", "o", "w">>
STR_edit == <<"e", "d", "i", "t">>
STR_update == <<"u", "p", "d", "a", "t", "e">>
STR_destroy == <<"d", "e", "s", "t", "r", "o", "y">>
STR_id == <<"i", "d">>
STR_http == <<"h", "t", "t", "p">>
STR_slash == <<"/">>
STR_slashCreate == <<"/", "c", "r", "e", "a", "t", "e">>
STR_slashEdit == <<"/", "e", "d", "i", "t">>
STR_null == <<"n", "u", "l", "l">>
STR_undefined == <<"u", "n", "d", "e", "f", "i", "n", "e", "d">>
STR_ies == <<"i", "e", "s">>
STR_ses == <<"s", "e", "s">>
STR_y == <<"y">>
STR_brackets == <<"[", "]">>

STR_photos == <<"p", "h", "o", "t", "o", "s">>
STR_cities == <<"c", "i", "t", "i", "e", "s">>
STR_classes == <<"c", "l", "a", "s", "s", "e", "s">>
STR_sheep == <<"s", "h", "e", "e", "p">>
STR_s == <<"s">>
STR_https == <<"h", "t", "t", "p", "s">>
STR_item == <<"i", "t", "e", "m">>
STR_user == <<"u", "s", "e", "r">>
STR_q == <<"q">>
STR_tags == <<"t", "a", "g", "s">>
STR_usersPrefix == <<"/", "u", "s", "e", "r", "s", "/", "{", "u", "s", "e", "r", "}">>
STR_teamPrefix == <<"/", "{", "u", "s", "e", "r", "}", "/", "t", "/", "{", "q", "}">>
STR_apiBase == <<"h", "t", "t", "p", "s", ":", "/", "/", "a", "p", "i", ".", "e", "x", "a", "m", "p", "l", "e", ".", "c", "o", "m">>
STR_Photos == <<"P", "h", "o", "t", "o", "s">>
STR_extra == <<"e", "x", "t", "r", "a">>
STR_remove == <<"r", "e", "m", "o", "v", "e">>
STR_a_b == <<"a", " ", "b">>
STR_aSlashB == <<"a", "/", "b">>

(* The value `undefined` where a string is expected: no sequence of         *)
(* one-character strings equals it.                                        *)
Undefined == <<"undefined">>

-----------------------------------------------------------------------------
(* Character classes *)

Digits == {"0", "1", "2", "3", "4", "5", "6", "7", "8", "9"}

Lower == {"a", "b", "c", "d", "e", "f", "g", "h", "i", "j", "k", "l", "m",
          "n", "o", "p", "q", "r", "s", "t", "u", "v", "w", "x", "y", "z"}

Upper == {"A", "B", "C", "D", "E", "F", "G", "H", "I", "J", "K", "L", "M",
          "N", "O", "P", "Q", "R", "S", "T", "U", "V", "W", "X", "Y", "Z"}

Alnum == Lower \cup Upper \cup Digits

(* \w of the regular expression in replaceTokens *)
WordChars == Alnum \cup {"_"}

(* characters encodeURIComponent leaves alone *)
UriUnreserved == Alnum \cup {"-", "_", ".", "!", "~", "*", "'", "(", ")"}

(* characters URLSearchParams.toString leaves alone *)
FormUnreserved == Alnum \cup {"*", "-", ".", "_"}

(* %XX of the other ASCII characters that occur in the model *)
PercentCode(c) ==
    CASE c = " " -> <<"%", "2", "0">>
      [] c = "!" -> <<"%", "2", "1">>
      [] c = "%" -> <<"%", "2", "5">>
      [] c = "&" -> <<"%", "2", "6">>
      [] c = "'" -> <<"%", "2", "7">>
      [] c = "(" -> <<"%", "2", "8">>
      [] c = ")" -> <<"%", "2", "9">>
      [] c = "+" -> <<"%", "2", "B">>
      [] c = "," -> <<"%", "2", "C">>
      [] c = "/" -> <<"%", "2", "F">>
      [] c = ":" -> <<"%", "3", "A">>
      [] c = "=" -> <<"%", "3", "D">>
      [] c = "?" -> <<"%", "3", "F">>
      [] c = "[" -> <<"%", "5", "B">>
      [] c = "]" -> <<"%", "5", "D">>
      [] c = "{" -> <<"%", "7", "B">>
      [] c = "}" -> <<"%", "7", "D">>
      [] c = "~" -> <<"%", "7", "E">>

-----------------------------------------------------------------------------
(* String primitives of the language *)

RECURSIVE Flatten(_)
Flatten(ss) == IF ss = <<>> THEN <<>> ELSE Head(ss) \o Flatten(Tail(ss))

startsWith(s, p) == Len(s) >= Len(p) /\ SubSeq(s, 1, Len(p)) = p

endsWith(s, p) == Len(s) >= Len(p) /\ SubSeq(s, Len(s) - Len(p) + 1, Len(s)) = p

(* s.slice(0, -n) *)
sliceEnd(s, n) == SubSeq(s, 1, Len(s) - n)

RECURSIVE split(_, _)
split(s, sep) ==
    IF \E i \in 1..Len(s) : s[i] = sep
    THEN LET i == CHOOSE k \in 1..Len(s) :
                      s[k] = sep /\ \A m \in 1..(k - 1) : s[m] # sep
         IN <<SubSeq(s, 1, i - 1)>> \o split(SubSeq(s, i + 1, Len(s)), sep)
    ELSE <<s>>

RECURSIVE join(_, _)
join(parts, sep) ==
    IF parts = <<>> THEN <<>>
    ELSE IF Len(parts) = 1 THEN parts[1]
    ELSE parts[1] \o sep \o join(Tail(parts), sep)

encodeURIComponent(s) ==
    Flatten([i \in 1..Len(s) |->
                IF s[i] \in UriUnreserved THEN <<s[i]>> ELSE PercentCode(s[i])])

(* the application/x-www-form-urlencoded serializer of URLSearchParams *)
FormEncode(s) ==
    Flatten([i \in 1..Len(s) |->
                IF s[i] \in FormUnreserved THEN <<s[i]>>
                ELSE IF s[i] = " " THEN <<"+">>
                ELSE PercentCode(s[i])])

DigitChars == <<"0", "1", "2", "3", "4", "5", "6", "7", "8", "9">>

RECURSIVE NatToString(_)
NatToString(n) ==
    IF n < 10 THEN <<DigitChars[n + 1]>>
    ELSE NatToString(n \div 10) \o <<DigitChars[(n % 10) + 1]>>

-----------------------------------------------------------------------------
(* Values of a params object: Record<string, unknown> *)

Num(n) == [t |-> "num", n |-> n, s |-> <<>>, items |-> <<>>]
Str(s) == [t |-> "str", n |-> 0, s |-> s, items |-> <<>>]
Arr(items) == [t |-> "arr", n |-> 0, s |-> <<>>, items |-> items]
Null == [t |-> "null", n |-> 0, s |-> <<>>, items |-> <<>>]
Undef == [t |-> "undef", n |-> 0, s |-> <<>>, items |-> <<>>]

(* String(v) of a value that is no array *)
ScalarString(v) ==
    CASE v.t = "num" -> IF v.n < 0 THEN <<"-">> \o NatToString(-v.n)
                        ELSE NatToString(v.n)
      [] v.t = "str" -> v.s
      [] v.t = "null" -> STR_null
      [] v.t = "undef" -> STR_undefined

(* String(v): an array is its elements joined by ",", null and undefined   *)
(* elements being empty.                                                   *)
String(v) ==
    IF v.t = "arr"
    THEN join([i \in 1..Len(v.items) |->
                  IF v.items[i].t \in {"null", "undef"} THEN <<>>
                  ELSE ScalarString(v.items[i])], <<",">>)
    ELSE ScalarString(v)

Keys(p) == {p[i].k : i \in 1..Len(p)}

(* key in params *)
HasKey(p, key) == key \in Keys(p)

(* params[key] *)
Get(p, key) ==
    IF HasKey(p, key) THEN p[CHOOSE i \in 1..Len(p) : p[i].k = key].v ELSE Undef

-----------------------------------------------------------------------------
(* Helpers of the source *)

Actions == {STR_index, STR_create, STR_store, STR_show, STR_edit, STR_update,
            STR_destroy}

isValidAction(x) ==
    \/ x = STR_index
    \/ x = STR_create
    \/ x = STR_store
    \/ x = STR_show
    \/ x = STR_edit
    \/ x = STR_update
    \/ x = STR_destroy

(* toSingular with the "s" rule tried before the "ies" and "ses" rules *)
toSingular_sFirst(plural) ==
    IF endsWith(plural, STR_s) THEN sliceEnd(plural, 1)
    ELSE plural

toSingular(plural) ==
    IF endsWith(plural, STR_ies) THEN sliceEnd(plural, 3) \o STR_y
    ELSE IF endsWith(plural, STR_ses) THEN sliceEnd(plural, 2)
    ELSE IF endsWith(plural, STR_s) THEN sliceEnd(plural, 1)
    ELSE plural

RECURSIVE trimLeadingSlashes(_)
trimLeadingSlashes(s) ==
    IF s # <<>> /\ Head(s) = "/" THEN trimLeadingSlashes(Tail(s)) ELSE s

RECURSIVE trimTrailingSlashes(_)
trimTrailingSlashes(s) ==
    IF s # <<>> /\ s[Len(s)] = "/"
    THEN trimTrailingSlashes(SubSeq(s, 1, Len(s) - 1))
    ELSE s

(* s.replace(/^\/+|\/+$/g, "") *)
trimSlashes(s) == trimTrailingSlashes(trimLeadingSlashes(s))

(* path.replace(/\/{2,}/g, "/") *)
RECURSIVE collapseSlashes(_)
collapseSlashes(s) ==
    IF s = <<>> THEN <<>>
    ELSE IF Head(s) = "/"
    THEN <<"/">> \o collapseSlashes(trimLeadingSlashes(s))
    ELSE <<Head(s)>> \o collapseSlashes(Tail(s))

joinUrl(parts) ==
    LET kept == SelectSeq(parts, LAMBDA p : p # <<>>)
        cleaned == [i \in 1..Len(kept) |-> trimSlashes(kept[i])]
        joined == join(cleaned, <<"/">>)
        path == IF ~startsWith(joined, STR_http) /\ ~startsWith(joined, STR_slash)
                THEN <<"/">> \o joined
                ELSE joined
    IN collapseSlashes(path)

(* The matches of /\{(\w+)\}/g in a template, left to right: the template  *)
(* as a sequence of pieces, each a placeholder (its key) or one character. *)
RECURSIVE wordRunEnd(_, _)
wordRunEnd(s, i) ==
    IF i <= Len(s) /\ s[i] \in WordChars THEN wordRunEnd(s, i + 1) ELSE i

RECURSIVE tokenize(_, _)
tokenize(s, i) ==
    IF i > Len(s) THEN <<>>
    ELSE LET j == wordRunEnd(s, i + 1)
         IN IF s[i] = "{" /\ j > i + 1 /\ j <= Len(s) /\ s[j] = "}"
            THEN <<[tok |-> TRUE, text |-> SubSeq(s, i + 1, j - 1)]>>
                     \o tokenize(s, j + 1)
            ELSE <<[tok |-> FALSE, text |-> <<s[i]>>]>> \o tokenize(s, i + 1)

(* the replacement of one placeholder, without the encoding *)
tokenValue_raw(p, key) == String(Get(p, key))

(* return encodeURIComponent(String(params[key])) *)
tokenValue(p, key) == encodeURIComponent(String(Get(p, key)))

(* The replace callback over the pieces, in order; it throws at the first  *)
(* placeholder whose key is missing.                                       *)
RECURSIVE replacePieces(_, _, _, _)
replacePieces(pieces, p, used, out) ==
    IF pieces = <<>>
    THEN [threw |-> FALSE, missing |-> <<>>, out |-> out, used |-> used]
    ELSE LET h == Head(pieces)
         IN IF ~h.tok
            THEN replacePieces(Tail(pieces), p, used, out \o h.text)
            ELSE IF ~HasKey(p, h.text)
            THEN [threw |-> TRUE, missing |-> h.text, out |-> <<>>, used |-> used]
            ELSE replacePieces(Tail(pieces), p, used \cup {h.text},
                               out \o tokenValue(p, h.text))

replaceTokens(template, p, used) ==
    IF template = <<>>
    THEN [threw |-> FALSE, missing |-> <<>>, out |-> <<>>, used |-> used]
    ELSE LET r == replacePieces(tokenize(template, 1), p, used, <<>>)
         IN IF r.threw THEN r ELSE [r EXCEPT !.out = trimSlashes(r.out)]

idNeeded == {STR_show, STR_edit, STR_update, STR_destroy}

(* candidateKeys.find((k) => k in params) *)
findKey(singular, p) ==
    IF HasKey(p, singular) THEN singular
    ELSE IF HasKey(p, STR_id) THEN STR_id
    ELSE Undefined

(* the switch of actionToPath with the "/edit" suffix left out *)
relOf_noEdit(action, idSegment) ==
    IF action = STR_create THEN STR_slashCreate
    ELSE IF action \in idNeeded THEN idSegment
    ELSE <<>>

(* the switch of actionToPath *)
relOf(action, idSegment) ==
    CASE action = STR_index -> <<>>
      [] action = STR_create -> STR_slashCreate
      [] action = STR_store -> <<>>
      [] action = STR_show -> idSegment
      [] action = STR_edit -> idSegment \o STR_slashEdit
      [] action = STR_update -> idSegment
      [] action = STR_destroy -> idSegment

actionToPath(action, singular, p, used) ==
    IF action \in idNeeded
    THEN LET key == findKey(singular, p)
         IN IF key = Undefined \/ key = <<>>        \* if (!key)
            THEN [threw |-> TRUE, rel |-> <<>>, used |-> used]
            ELSE [threw |-> FALSE,
                  rel |-> relOf(action,
                                <<"/">> \o encodeURIComponent(String(Get(p, key)))),
                  used |-> used \cup {key}]
    ELSE [threw |-> FALSE, rel |-> relOf(action, <<>>), used |-> used]

(* the filter of buildQueryString without the used-key test *)
queryEntries_all(p, used) ==
    SelectSeq(p, LAMBDA e : e.v.t \notin {"undef", "null"})

(* Object.entries(params).filter(...) *)
queryEntries(p, used) ==
    SelectSeq(p, LAMBDA e : e.k \notin used /\ e.v.t \notin {"undef", "null"})

(* the name/value pairs appended to the URLSearchParams for one entry *)
pairsOf(e) ==
    IF e.v.t = "arr"
    THEN [i \in 1..Len(e.v.items) |->
             <<e.k \o STR_brackets, String(e.v.items[i])>>]
    ELSE <<<<e.k, String(e.v)>>>>

(* usp.toString() *)
uspToString(pairs) ==
    join([i \in 1..Len(pairs) |->
             FormEncode(pairs[i][1]) \o <<"=">> \o FormEncode(pairs[i][2])],
         <<"&">>)

buildQueryString(p, used) ==
    LET entries == queryEntries(p, used)
    IN IF entries = <<>> THEN <<>>
       ELSE uspToString(Flatten([i \in 1..Len(entries) |-> pairsOf(entries[i])]))

-----------------------------------------------------------------------------
(* The resolver *)

(* the closure of createLaravelResourceResolver: the destructured options  *)
(* and singular = resourceParam ?? toSingular(resource)                    *)
createLaravelResourceResolver(resource, prefix, resourceParam, trailingSlash, baseUrl) ==
    [resource |-> resource,
     prefix |-> prefix,
     resourceParam |-> resourceParam,
     trailingSlash |-> trailingSlash,
     baseUrl |-> baseUrl,
     singular |-> IF resourceParam # Undefined THEN resourceParam
                  ELSE toSingular(resource)]

(* a set of used keys kept across the calls instead of made per call *)
NewUsedKeys_shared == usedKeys

(* const usedKeys = new Set<string>() *)
NewUsedKeys == {}

Throw(kind, used) == [kind |-> kind, url |-> <<>>, used |-> used]

(* One call of route(name, params) on the closure c: what it returns or    *)
(* throws, and the used keys it leaves in its local set.                   *)
route(c, n, p) ==
    LET parts == split(n, ".")
        res == parts[1]
        action == IF Len(parts) >= 2 THEN parts[2] ELSE Undefined
    IN IF res # c.resource THEN Throw("InvalidResource", usedKeys)
       ELSE IF ~isValidAction(action) THEN Throw("InvalidAction", usedKeys)
       ELSE LET pre == replaceTokens(c.prefix, p, NewUsedKeys)
            IN IF pre.threw THEN Throw("MissingPrefixParam", pre.used)
               ELSE LET root == <<"/">> \o trimSlashes(c.resource)
                        rel == actionToPath(action, c.singular, p, pre.used)
                    IN IF rel.threw
                       THEN Throw("MissingIdentifierParam", rel.used)
                       ELSE LET joined == joinUrl(<<c.baseUrl, pre.out, root,
                                                    rel.rel>>)
                                url == IF c.trailingSlash
                                          /\ ~endsWith(joined, STR_slash)
                                       THEN joined \o <<"/">>
                                       ELSE joined
                                qs == buildQueryString(p, rel.used)
                            IN [kind |-> "url",
                                url |-> IF qs # <<>> THEN url \o <<"?">> \o qs
                                        ELSE url,
                                used |-> rel.used]

-----------------------------------------------------------------------------
(* Inputs *)

MaxParams == 2

MaxCalls == 3

Resources == {STR_photos, STR_cities, STR_classes, STR_sheep, STR_s,
              STR_https, STR_slash}

Configs ==
    {createLaravelResourceResolver(r, <<>>, Undefined, FALSE, <<>>) :
        r \in Resources}
    \cup
    {createLaravelResourceResolver(STR_photos, x, k, ts, b) :
        x \in {<<>>, STR_usersPrefix}, k \in {Undefined, STR_item},
        ts \in BOOLEAN, b \in {<<>>, STR_apiBase}}
    \cup
    {createLaravelResourceResolver(STR_photos, STR_teamPrefix, Undefined, FALSE,
                                   <<>>)}

Names(c) ==
    {c.resource \o <<".">> \o a : a \in Actions}
    \cup {c.resource,
          c.resource \o <<".">> \o STR_show \o <<".">> \o STR_extra,
          c.resource \o <<".">> \o STR_remove,
          STR_Photos \o <<".">> \o STR_index}

Entries(c) ==
    {[k |-> c.singular, v |-> x] : x \in {Num(42), Str(<<>>)}}
    \cup {[k |-> STR_id, v |-> Num(7)]}
    \cup {[k |-> STR_user, v |-> x] : x \in {Num(7), Str(STR_aSlashB), Str(<<>>)}}
    \cup {[k |-> STR_q, v |-> x] : x \in {Str(STR_a_b), Null}}
    \cup {[k |-> STR_tags, v |-> x] :
             x \in {Arr(<<Str(<<"a">>), Str(STR_a_b)>>), Arr(<<>>)}}

DistinctKeys(p) == \A i, j \in 1..Len(p) : p[i].k = p[j].k => i = j

ParamsOf(c) ==
    UNION {{p \in [1..n -> Entries(c)] : DistinctKeys(p)} : n \in 0..MaxParams}

-----------------------------------------------------------------------------
(* The state machine: a caller invokes the route function of one resolver, *)
(* again and again.                                                        *)

NoResult == [kind |-> "none", url |-> <<>>]

NoCall ==
    [made |-> FALSE,
     cfg |-> createLaravelResourceResolver(<<>>, <<>>, Undefined, FALSE, <<>>),
     name |-> <<>>, params |-> <<>>, result |-> NoResult]

Init ==
    /\ cfg \in Configs
    /\ name = <<>>
    /\ params = <<>>
    /\ usedKeys = {}
    /\ result = NoResult
    /\ pc = "idle"
    /\ first = NoCall
    /\ calls = 0

(* the caller passes name and params *)
CallStep(n, p) ==
    /\ pc = "idle"
    /\ name' = n
    /\ params' = p
    /\ result' = NoResult
    /\ pc' = "running"
    /\ UNCHANGED <<cfg, usedKeys>>

(* the body of route, lines 59-88 *)
RouteStep ==
    /\ pc = "running"
    /\ LET r == route(cfg, name, params)
       IN /\ result' = [kind |-> r.kind, url |-> r.url]
          /\ usedKeys' = r.used
    /\ pc' = "idle"
    /\ UNCHANGED <<cfg, name, params>>

(* Spec: one call on a fresh resolver, with any of the inputs *)
Call ==
    /\ calls = 0
    /\ \E n \in Names(cfg) : \E p \in ParamsOf(cfg) : CallStep(n, p)
    /\ calls' = calls + 1
    /\ UNCHANGED first

Route == RouteStep /\ UNCHANGED <<first, calls>>

Next == Call \/ Route

Spec == Init /\ [][Next]_vars

(* SpecSeq: up to MaxCalls calls, one after the other, on one resolver;    *)
(* first records the arguments and the outcome of the first of them.       *)
SeqConfigs ==
    {createLaravelResourceResolver(STR_photos, x, Undefined, FALSE, <<>>) :
        x \in {<<>>, STR_usersPrefix}}

SeqNames ==
    {STR_photos \o <<".">> \o a : a \in {STR_index, STR_show}}
    \cup {STR_photos \o <<".">> \o STR_remove}

SeqParams ==
    {<<>>,
     <<[k |-> STR_id, v |-> Num(7)]>>,
     <<[k |-> STR_user, v |-> Num(7)], [k |-> STR_id, v |-> Num(42)]>>,
     <<[k |-> STR_user, v |-> Num(7)], [k |-> STR_q, v |-> Str(STR_a_b)]>>,
     <<[k |-> STR_id, v |-> Num(7)], [k |-> STR_tags,
                                      v |-> Arr(<<Str(<<"a">>)>>)]>>}

InitSeq == Init /\ cfg \in SeqConfigs

CallSeq ==
    /\ calls < MaxCalls
    /\ \E n \in SeqNames : \E p \in SeqParams : CallStep(n, p)
    /\ calls' = calls + 1
    /\ UNCHANGED first

RouteSeq ==
    /\ RouteStep
    /\ first' = IF first.made THEN first
                ELSE [made |-> TRUE, cfg |-> cfg, name |-> name,
                      params |-> params, result |-> result']
    /\ UNCHANGED calls

NextSeq == CallSeq \/ RouteSeq

SpecSeq == InitSeq /\ [][NextSeq]_vars

Done == pc = "idle" /\ result.kind # "none"

Returned == Done /\ result.kind = "url"

-----------------------------------------------------------------------------
(* Vocabulary of the properties *)

(* the text of name before its first "." and all the text after it *)
HasDot(n) == \E i \in 1..Len(n) : n[i] = "."

FirstDot(n) == CHOOSE i \in 1..Len(n) : n[i] = "." /\ \A m \in 1..(i - 1) : n[m] # "."

ResOf(n) == IF HasDot(n) THEN SubSeq(n, 1, FirstDot(n) - 1) ELSE n

ActionOf(n) == IF HasDot(n) THEN SubSeq(n, FirstDot(n) + 1, Len(n)) ELSE Undefined

(* name is exactly "<resource>.<action>" with a recognized action *)
ValidName == ResOf(name) = cfg.resource /\ ActionOf(name) \in Actions

IdBound == ActionOf(name) \in idNeeded

(* the {key} placeholders of a template, as pairs of positions *)
Placeholders(tpl) ==
    {ij \in (1..Len(tpl)) \X (1..Len(tpl)) :
        /\ ij[2] > ij[1] + 1
        /\ tpl[ij[1]] = "{"
        /\ tpl[ij[2]] = "}"
        /\ \A m \in (ij[1] + 1)..(ij[2] - 1) : tpl[m] \in WordChars}

PlaceholderKeys(tpl) == {SubSeq(tpl, ij[1] + 1, ij[2] - 1) : ij \in Placeholders(tpl)}

PrefixSupplied == PlaceholderKeys(cfg.prefix) \subseteq Keys(params)

Contains(s, seg) ==
    \E i \in 1..(Len(s) + 1) : i + Len(seg) - 1 <= Len(s)
                               /\ SubSeq(s, i, i + Len(seg) - 1) = seg

(* the URL up to its query string, and the query string *)
HasQuery(u) == \E i \in 1..Len(u) : u[i] = "?"

QueryPos(u) == CHOOSE i \in 1..Len(u) : u[i] = "?" /\ \A m \in 1..(i - 1) : u[m] # "?"

PathOf(u) == IF HasQuery(u) THEN SubSeq(u, 1, QueryPos(u) - 1) ELSE u

QueryOf(u) == IF HasQuery(u) THEN SubSeq(u, QueryPos(u) + 1, Len(u)) ELSE <<>>

(* the URL-component-encoded string form of the value under key *)
Encoded(key) == encodeURIComponent(String(Get(params, key)))

(* the suffix the action puts after the identifier *)
AfterId == IF ActionOf(name) = STR_edit THEN STR_slashEdit ELSE <<>>

(* the value under key is the identifier placed in the path *)
IdentifierIs(key) ==
    /\ result.kind = "url"
    /\ key \in usedKeys
    /\ endsWith(trimTrailingSlashes(PathOf(result.url)),
                IF Encoded(key) = <<>> THEN AfterId
                ELSE <<"/">> \o Encoded(key) \o AfterId)

-----------------------------------------------------------------------------
(* C1: with baseUrl "https://api.example.com" and trailingSlash true (no    *)
(* prefix), route("R.index") with no params returns exactly                *)
(* "https://api.example.com/R/", the "//" after the scheme kept.           *)
C1_Case ==
    /\ Done
    /\ cfg.baseUrl = STR_apiBase
    /\ cfg.trailingSlash
    /\ cfg.prefix = <<>>
    /\ name = cfg.resource \o <<".">> \o STR_index
    /\ params = <<>>

(* C1: in that case the result is exactly the base URL, its "//" kept,     *)
(* then "/R" and one trailing slash.                                       *)
C1_BaseUrlKept ==
    C1_Case =>
        /\ result.kind = "url"
        /\ result.url = STR_apiBase \o <<"/">> \o cfg.resource \o <<"/">>

(* C2: with default options, for every non-empty resource name R without   *)
(* "/" and ".", route("R.index") with no params returns exactly "/" R.     *)
C2_Case ==
    /\ Done
    /\ cfg.baseUrl = <<>>
    /\ cfg.prefix = <<>>
    /\ cfg.resourceParam = Undefined
    /\ ~cfg.trailingSlash
    /\ cfg.resource # <<>>
    /\ \A i \in 1..Len(cfg.resource) : cfg.resource[i] \notin {"/", "."}
    /\ name = cfg.resource \o <<".">> \o STR_index
    /\ params = <<>>

(* C2: in that case the result is exactly "/" followed by R.               *)
C2_DefaultIndex ==
    C2_Case =>
        /\ result.kind = "url"
        /\ result.url = <<"/">> \o cfg.resource

(* C4: for show, edit, update and destroy, with a valid name and every     *)
(* prefix placeholder supplied: the singular key's value is the identifier *)
(* if that key is in params, else the value of "id" if that is in params,  *)
(* and the call fails with MissingIdentifierParam exactly when neither key *)
(* is in params.                                                           *)
C4_Case == Done /\ ValidName /\ IdBound /\ PrefixSupplied

(* C4: the singular key first, then "id"; MissingIdentifierParam exactly   *)
(* when neither key is in params.                                          *)
C4_IdentifierResolution ==
    C4_Case =>
        /\ HasKey(params, cfg.singular) => IdentifierIs(cfg.singular)
        /\ ~HasKey(params, cfg.singular) /\ HasKey(params, STR_id)
              => IdentifierIs(STR_id)
        /\ result.kind = "MissingIdentifierParam"
              <=> (~HasKey(params, cfg.singular) /\ ~HasKey(params, STR_id))

(* C5: with an explicit resourceParam K, every show, edit, update or       *)
(* destroy call whose params do not contain K fails with the               *)
(* missing-identifier error.                                               *)
C5_Case ==
    /\ Done
    /\ cfg.resourceParam # Undefined
    /\ ValidName
    /\ IdBound
    /\ PrefixSupplied
    /\ ~HasKey(params, cfg.resourceParam)

(* C5: without the key K in params the call fails with the                 *)
(* missing-identifier error.                                               *)
C5_ExplicitKeyRequired == C5_Case => result.kind = "MissingIdentifierParam"

(* C7: name is split at its first "." into res and action (all the text    *)
(* after it); res other than the resource fails with InvalidResource,      *)
(* otherwise an action that is none of the seven fails with InvalidAction, *)
(* and a URL is returned only for names that are exactly                   *)
(* "<resource>.<action>".                                                  *)
C7_NameValidation ==
    Done =>
        /\ ResOf(name) # cfg.resource => result.kind = "InvalidResource"
        /\ ResOf(name) = cfg.resource /\ ActionOf(name) \notin Actions
              => result.kind = "InvalidAction"
        /\ result.kind = "url" => ValidName

(* C3 as stated: with trailingSlash off and no leftover parameters, where  *)
(* P is the index URL of the same resolver with the same prefix params:    *)
(* store returns P, create returns P "/create", show, update and destroy   *)
(* return P "/" and the encoded identifier, edit that followed by "/edit", *)
(* for every identifier value.                                             *)
PrefixParams == SelectSeq(params, LAMBDA e : e.k \in PlaceholderKeys(cfg.prefix))

IndexUrl == route(cfg, cfg.resource \o <<".">> \o STR_index, PrefixParams).url

IdKeysGiven == {cfg.singular, STR_id} \cap Keys(params)

C3_Case ==
    /\ Returned
    /\ ValidName
    /\ ~cfg.trailingSlash
    /\ Keys(params) \subseteq usedKeys

C3_Relation ==
    /\ ActionOf(name) \in {STR_index, STR_store} => result.url = IndexUrl
    /\ ActionOf(name) = STR_create => result.url = IndexUrl \o STR_slashCreate
    /\ IdBound =>
          \E key \in IdKeysGiven :
              result.url = IndexUrl \o <<"/">> \o Encoded(key) \o AfterId

C3_Regular ==
    /\ trimSlashes(cfg.resource) # <<>>
    /\ IdBound => \A key \in IdKeysGiven : Encoded(key) # <<>>

EncodedChars == {" ", "!", "%", "&", "'", "(", ")", "+", ",", "/", ":", "=",
                 "?", "[", "]", "{", "}", "~"}

RECURSIVE FormDecode(_)
FormDecode(s) ==
    IF s = <<>> THEN <<>>
    ELSE IF Head(s) = "+" THEN <<" ">> \o FormDecode(Tail(s))
    ELSE IF Head(s) = "%"
    THEN <<CHOOSE c \in EncodedChars : PercentCode(c) = SubSeq(s, 1, 3)>>
             \o FormDecode(SubSeq(s, 4, Len(s)))
    ELSE <<Head(s)>> \o FormDecode(Tail(s))

ParseField(f) ==
    LET i == CHOOSE k \in 1..Len(f) : f[k] = "=" /\ \A m \in 1..(k - 1) : f[m] # "="
    IN <<FormDecode(SubSeq(f, 1, i - 1)), FormDecode(SubSeq(f, i + 1, Len(f)))>>

ParseQuery(q) ==
    IF q = <<>> THEN <<>>
    ELSE LET fields == split(q, "&")
         IN [i \in 1..Len(fields) |-> ParseField(fields[i])]

(* the action the call resolved: the text between the first two dots *)
ResolvedAction == split(name, ".")[2]

ConsumedKeys ==
    PlaceholderKeys(cfg.prefix)
    \cup (IF ResolvedAction \in idNeeded
          THEN {IF HasKey(params, cfg.singular) THEN cfg.singular ELSE STR_id}
          ELSE {})

ExpectedPairsOf(e) ==
    IF e.k \in ConsumedKeys \/ e.v.t \in {"null", "undef"} THEN <<>>
    ELSE IF e.v.t = "arr"
    THEN [j \in 1..Len(e.v.items) |->
             <<e.k \o <<"[", "]">>, ScalarString(e.v.items[j])>>]
    ELSE <<<<e.k, ScalarString(e.v)>>>>

ExpectedPairs == Flatten([i \in 1..Len(params) |-> ExpectedPairsOf(params[i])])

RECURSIVE Substituted(_, _)
Substituted(tpl, i) ==
    IF i > Len(tpl) THEN <<>>
    ELSE IF \E ij \in Placeholders(tpl) : ij[1] = i
    THEN LET j == CHOOSE k \in 1..Len(tpl) : <<i, k>> \in Placeholders(tpl)
         IN Encoded(SubSeq(tpl, i + 1, j - 1)) \o Substituted(tpl, j + 1)
    ELSE <<tpl[i]>> \o Substituted(tpl, i + 1)

ExpectedSegment ==
    LET sub == collapseSlashes(trimSlashes(Substituted(cfg.prefix, 1)))
    IN (IF sub = <<>> THEN <<>> ELSE <<"/">> \o sub)
           \o <<"/">> \o trimSlashes(cfg.resource)

C8_Case == Done /\ cfg.prefix # <<>> /\ ValidName

(* C8: MissingPrefixParam when a placeholder key is missing; otherwise the  *)
(* substituted prefix stands before the resource root.                     *)
C8_PrefixSubstitution ==
    C8_Case =>
        IF PrefixSupplied
        THEN /\ result.kind # "MissingPrefixParam"
             /\ result.kind = "url" =>
                   /\ Contains(PathOf(result.url), ExpectedSegment)
                   /\ cfg.baseUrl = <<>> => startsWith(result.url, ExpectedSegment)
        ELSE result.kind = "MissingPrefixParam"

C8_Witness ==
    /\ C8_Case
    /\ cfg.prefix = STR_usersPrefix
    /\ cfg.resourceParam = Undefined
    /\ name = STR_photos \o <<".">> \o STR_show
    /\ params = <<[k |-> STR_user, v |-> Num(7)],
                  [k |-> toSingular(STR_photos), v |-> Num(42)]>>
    /\ result.url = <<"/", "u", "s", "e", "r", "s", "/", "7", "/">>
                        \o STR_photos \o <<"/", "4", "2">>

(* C9: without resourceParam the primary identifier key is the resource    *)
(* name changed by the first rule that applies: a final "ies" becomes "y", *)
(* else a final "ses" loses "es", else a final "s" is dropped, else the    *)
(* name is kept; with resourceParam the key is exactly resourceParam.  The *)
(* resource root of the URL is never singularized.                         *)
EndsIn(r, suffix) == \E stem \in {SubSeq(r, 1, k) : k \in 0..Len(r)} : r = stem \o suffix

StemOf(r, suffix) == CHOOSE stem \in {SubSeq(r, 1, k) : k \in 0..Len(r)} : r = stem \o suffix

ExpectedSingular(r) ==
    IF EndsIn(r, <<"i", "e", "s">>) THEN StemOf(r, <<"i", "e", "s">>) \o <<"y">>
    ELSE IF EndsIn(r, <<"s", "e", "s">>) THEN StemOf(r, <<"e", "s">>)
    ELSE IF EndsIn(r, <<"s">>) THEN StemOf(r, <<"s">>)
    ELSE r

PrimaryKey ==
    IF cfg.resourceParam # Undefined THEN cfg.resourceParam
    ELSE ExpectedSingular(cfg.resource)

(* C9: the captured singular is the primary key of the rules, the URL      *)
(* keeps the resource name, and the primary key is the key consumed.       *)
C9_PrimaryKey ==
    /\ cfg.singular = PrimaryKey
    /\ Returned =>
          /\ Contains(PathOf(result.url), trimSlashes(cfg.resource))
          /\ ResolvedAction \in idNeeded /\ HasKey(params, PrimaryKey)
                => PrimaryKey \in usedKeys

C9_Witness ==
    /\ Returned
    /\ cfg.resource = STR_cities
    /\ cfg.resourceParam = Undefined
    /\ ResolvedAction = STR_show
    /\ <<"c", "i", "t", "y">> \in usedKeys
    /\ Contains(PathOf(result.url), <<"/">> \o STR_cities \o <<"/", "4", "2">>)

(* C10: after any earlier calls to one route function, a call with a given *)
(* name and params yields what it yields as the very first call; the call  *)
(* leaves the captured configuration and the caller's params as they were. *)
C10_SameAsFirst ==
    pc = "idle" /\ first.made /\ name = first.name /\ params = first.params
        => result = first.result /\ cfg = first.cfg

(* C10: always, a call with the arguments of the first call has the        *)
(* outcome of the first call, and the route step changes neither cfg nor   *)
(* params.                                                                 *)
C10_CallsIndependent ==
    /\ []C10_SameAsFirst
    /\ [][pc = "running" => params' = params /\ cfg' = cfg]_vars

C10_Witness ==
    /\ pc = "idle"
    /\ first.made
    /\ calls = MaxCalls
    /\ name = first.name
    /\ params = first.params
    /\ result.kind = "url"
    /\ HasQuery(result.url)
    /\ usedKeys # {}

====
